---- MODULE Spec2Model ----
(***************************************************************************)
(* The checkpoint registry of ai_agents/checkpoint_system.py and the       *)
(* advisory calls of ai_agents/approval_system.py it drives.               *)
(*                                                                         *)
(* validate_checkpoint is a coroutine: it runs without interruption from   *)
(* one await to the next, so each action below is the code between two     *)
(* awaits (entry .. first await, resumption .. next await or return).      *)
(* CheckpointStatus objects are mutable and shared by reference, so the    *)
(* model keeps a heap of objects; the registry maps an id to a heap index. *)
(* The timestamp field (datetime.now()) is not modelled.                   *)
(***************************************************************************)
EXTENDS Integers, Sequences, FiniteSets, TLC

\* ---------------------------------------------------------------- bounds
MaxCalls == 2          \* validate_checkpoint invocations (coroutines)
MaxRoles == 2          \* length of a validation_roles list
MaxCheckpoints == 2    \* create_checkpoint invocations (objects on the heap)
MaxReplies == 3        \* advisory requests the service answers or drops

MaxFindings == 4       \* findings the advisory review returns
MaxDepth == 3          \* loops nested around a line of a source text
MaxRepeat == 4         \* copies of a statement in a source text

CallIds == 1..MaxCalls
Ids == {"c1", "c2"}
Stages == {"architecture", "spec"}
Roles == {"architect", "engineer"}
\* A role name is only interpolated into the prompt and used as a dictionary
\* key, so lists are taken up to renaming: the first role is "architect".
RoleLists ==
    {roles \in UNION {[1..n -> Roles] : n \in 0..MaxRoles} :
        roles = <<>> \/ roles[1] = "architect"}
Contents == {"json", "unserializable"}
Contexts == {"none", "unserializable"}

\* Optional[T]: None, or a value
None == <<>>
Some(x) == <<x>>

\* ------------------------------------------------- the advisory service
\* What client.generate_content(prompt) followed by json.loads(response.text)
\* and the pydantic constructor can give: parsed fields, or an exception.
PrimaryReplies ==
    { [error |-> "none", is_approved |-> TRUE, issues |-> <<>>],
      [error |-> "none", is_approved |-> FALSE, issues |-> <<"issue">>],
      [error |-> "malformed", is_approved |-> FALSE, issues |-> <<>>] }

RoleReplies ==
    { [error |-> "none", concerns |-> <<>>],
      [error |-> "none", concerns |-> <<"c1", "c2">>],
      [error |-> "malformed", concerns |-> <<>>] }

\* str(e) of the exception the advisory call raised
str(e) ==
    CASE e = "service" -> "503 service unavailable"
      [] e = "malformed" -> "Expecting value: line 1 column 1 (char 0)"
      [] e = "unserializable" -> "Object of type set is not JSON serializable"
      [] e = "save" -> "[Errno 28] No space left on device"

\* f"Validation error: {str(e)}"
ValidationErrorMsg(e) ==
    CASE e = "service" -> "Validation error: 503 service unavailable"
      [] e = "malformed" -> "Validation error: Expecting value: line 1 column 1 (char 0)"

\* f"Cross-validation error: {str(e)}"
CrossValidationErrorMsg(e) ==
    CASE e = "service" -> "Cross-validation error: 503 service unavailable"
      [] e = "malformed" -> "Cross-validation error: Expecting value: line 1 column 1 (char 0)"

ValidationResult(is_approved, issues, suggestions) ==
    [is_approved |-> is_approved, issues |-> issues, suggestions |-> suggestions]

RoleFeedback(concerns, suggestions) ==
    [concerns |-> concerns, suggestions |-> suggestions]

\* as validate_product_specs, but a failed call counts as an approval
validate_product_specs_open(reply) ==
    IF reply.error = "none"
    THEN ValidationResult(reply.is_approved, reply.issues, <<>>)
    ELSE ValidationResult(TRUE, <<ValidationErrorMsg(reply.error)>>,
                          <<"Please review and fix the specifications format">>)

\* approval_system.py: the try/except around the advisory call
validate_product_specs(reply) ==
    IF reply.error = "none"
    THEN ValidationResult(reply.is_approved, reply.issues, <<>>)
    ELSE ValidationResult(FALSE, <<ValidationErrorMsg(reply.error)>>,
                          <<"Please review and fix the specifications format">>)

validate_architecture(reply) ==
    IF reply.error = "none"
    THEN ValidationResult(reply.is_approved, reply.issues, <<>>)
    ELSE ValidationResult(FALSE, <<ValidationErrorMsg(reply.error)>>,
                          <<"Please review and fix the architecture format">>)

\* as cross_validate_with_role, but a failed call is swallowed: no concern
cross_validate_with_role_swallow(reply) ==
    IF reply.error = "none"
    THEN RoleFeedback(reply.concerns, <<>>)
    ELSE RoleFeedback(<<>>, <<"Please retry the validation process">>)

cross_validate_with_role(reply) ==
    IF reply.error = "none"
    THEN RoleFeedback(reply.concerns, <<>>)
    ELSE RoleFeedback(<<CrossValidationErrorMsg(reply.error)>>,
                      <<"Please retry the validation process">>)

\* json.dumps(x, indent=2) in the prompt f-strings, outside the try blocks:
\* TRUE when it raises TypeError
DumpsRaises(x) == x = "unserializable"

\* the prompt of validate_product_specs dumps specs (= content)
ProductSpecsPromptRaises(content) == DumpsRaises(content)

\* the prompt of validate_architecture dumps specs (= context or {}) and
\* architecture (= content)
ArchitecturePromptRaises(content, context) ==
    DumpsRaises(context) \/ DumpsRaises(content)

\* the prompt of cross_validate_with_role dumps context if it is truthy,
\* and content
RolePromptRaises(content, context) ==
    (context # "none" /\ DumpsRaises(context)) \/ DumpsRaises(content)

\* ---------------------------------------------------------------- state
VARIABLES
    checkpoints,   \* self.checkpoints: id -> heap index, 0 when absent
    heap,          \* the CheckpointStatus objects ever constructed
    calls,         \* the validate_checkpoint coroutines
    reports,       \* docs/validation_reports: one file per object (id, timestamp)
    ret,           \* what the last completed call returned or raised
    replies,       \* how many advisory requests the service has answered or dropped
    review,        \* ai_agents/reviewer.py: one review, its inputs and its verdict
    analysis       \* ai_agents/reviewer.py: two runs of review_code on one source

vars == <<checkpoints, heap, calls, reports, ret, replies, review, analysis>>

\* CheckpointStatus(checkpoint_id=, stage=, status="pending", timestamp=now)
CheckpointStatus(checkpoint_id, stage) ==
    [checkpoint_id |-> checkpoint_id,
     stage |-> stage,
     status |-> "pending",
     validation_result |-> None,
     cross_validation_results |-> None,
     approved_by |-> None,
     blocking_issues |-> None]

\* a coroutine's frame: its position, parameters and locals. entry_status and
\* answers are not variables of the code: they record what the checkpoint's
\* status was when the coroutine started and what the advisory service replied
\* to its role requests, so that the claims about a call can be stated.
IdleCall ==
    [pc |-> "idle",
     validation_roles |-> <<>>,
     content |-> "json",
     context |-> "none",
     checkpoint |-> 0,
     validation_result |-> None,
     cross_validation_results |-> <<>>,
     blocking_issues |-> <<>>,
     k |-> 0,                          \* the loop's position in validation_roles
     issued |-> 0,                     \* advisory requests issued so far
     entry_status |-> "absent",
     answers |-> <<>>]

\* ------------------------------------------ reviewer.py: source texts
\* A source text is modelled by what the scanners look at: `repeat` copies of
\* one statement, each a leaf line inside a nest of loops (outermost first),
\* every loop header and the leaf on a line of its own, the lines joined by
\* "\n". The leaves:
\*   eval          eval(x)                  execute     db.execute(q)
\*   query         db.query(q)              password    password = 1
\*   list_N        a list literal of N elements
\*   dict_N        a dict literal of N entries
\*   from_import   from a import b          def         def f(): return a and b and c and d and e and g
\*   pass          pass                     comment     # note
\*   syntax_error  def (
LoopKinds == {"for", "while"}
Nests == UNION {[1..d -> LoopKinds] : d \in 0..MaxDepth}
Leaves == {"eval", "execute", "query", "password", "list_1000", "list_1001",
           "dict_1000", "dict_1001", "from_import", "def", "pass", "comment",
           "syntax_error"}
EmptySource == [nest |-> <<>>, leaf |-> "pass", repeat |-> 0]
Sources == {EmptySource} \cup [nest : Nests, leaf : Leaves, repeat : 1..MaxRepeat]

\* len(node.elts) of a list literal
Elts(leaf) ==
    CASE leaf = "list_1000" -> 1000
      [] leaf = "list_1001" -> 1001
      [] OTHER -> 0

\* as Parses, but nothing is rejected
Parses_lenient(source) == source.repeat >= 0

\* ast.parse(code) returns a tree: no line is malformed, and no loop has a
\* comment for its whole body
Parses(source) ==
    /\ source.leaf # "syntax_error"
    /\ ~(source.leaf = "comment" /\ source.nest # <<>>)

\* len(code.split('\n')): the empty text splits into one empty line
total_lines(source) ==
    IF source.repeat = 0 THEN 1 ELSE source.repeat * (Len(source.nest) + 1)

\* the lines that start with '#'
comment_lines(source) ==
    IF source.leaf = "comment" THEN source.repeat ELSE 0

\* sum(complexity.values()): complexity is keyed by function name, so the
\* copies of def f share one entry; _calculate_complexity of f is 1 plus the
\* five extra operands of its boolean expression
complexity(source) ==
    IF source.leaf = "def" /\ source.repeat > 0 THEN 6 ELSE 0

\* the set _extract_dependencies collects: "import\s+(\w+)" finds b and
\* "from\s+(\w+)\s+import" finds a in "from a import b"
_extract_dependencies(source) ==
    IF source.leaf = "from_import" /\ source.repeat > 0 THEN {"a", "b"} ELSE {}

\* list(dependencies): the elements of the set in some order
Orders(set) ==
    {order \in [1..Cardinality(set) -> set] :
        \A x \in set : \E i \in 1..Cardinality(set) : order[i] = x}

Min(a, b) == IF a < b THEN a ELSE b
Max(a, b) == IF a > b THEN a ELSE b

\* round(1000 * math.log(n)) for n = 1..32
Ln1000 ==
    <<0, 693, 1099, 1386, 1609, 1792, 1946, 2079, 2197, 2303, 2398, 2485,
      2565, 2639, 2708, 2773, 2833, 2890, 2944, 2996, 3045, 3091, 3135, 3178,
      3219, 3258, 3296, 3332, 3367, 3401, 3434, 3466>>

\* lines 169-188; the float is kept in thousandths
_calculate_maintainability(lines, comments, cplx) ==
    IF lines = 0 THEN 0
    ELSE Max(0, Min(100000,
             100000 - ((25000 * cplx) \div lines) + ((15000 * comments) \div lines)
                 - 10 * Ln1000[lines]))

\* the issues list of _analyze_security, as the number of issues of each
\* severity: eval/exec is critical; an assignment to a name containing
\* "password" and a call of .execute are high
SecurityIssues(source) ==
    [critical |-> IF source.leaf = "eval" THEN source.repeat ELSE 0,
     high |-> IF source.leaf \in {"password", "execute"} THEN source.repeat ELSE 0]

\* lines 236-251
_analyze_security(source) ==
    LET issues == SecurityIssues(source)
    IN  IF issues.critical + issues.high = 0 THEN 100
        ELSE Max(0, 100 - 40 * issues.critical - 20 * issues.high)

\* how many entries of a nest are for loops
RECURSIVE ForLoops(_)
ForLoops(nest) ==
    IF nest = <<>> THEN 0
    ELSE (IF nest[1] = "for" THEN 1 ELSE 0) + ForLoops(Tail(nest))

\* lines 283-296, for one copy of the statement: one finding for every
\* ast.For node that contains the call
QueryInLoopFindings(source) ==
    IF source.leaf \in {"execute", "query"} THEN ForLoops(source.nest) ELSE 0

\* lines 271-281, for one copy of a list literal
ElementsFindings(source) ==
    IF Elts(source.leaf) > 1000 THEN 1 ELSE 0

\* the issues list of _analyze_performance, as the number of issues of each
\* unit; every loop node reports each loop nested in it
PerformanceIssues(source) ==
    [nested_loops |->
         source.repeat * ((Len(source.nest) * (Len(source.nest) - 1)) \div 2),
     elements |-> source.repeat * ElementsFindings(source),
     query_in_loop |-> source.repeat * QueryInLoopFindings(source)]

\* line 273: len(node.elts) of an ast.Dict node, which has keys and values
\* and no elts, raises AttributeError
PerformanceRaises(source) ==
    source.repeat > 0 /\ source.leaf \in {"dict_1000", "dict_1001"}

\* as _analyze_performance, but without the max(0.0, ...)
_analyze_performance_unclamped(source) ==
    LET issues == PerformanceIssues(source)
        n == issues.nested_loops + issues.elements + issues.query_in_loop
    IN  IF n = 0 THEN 100 ELSE 100 - 5 * n

\* lines 298-313: every issue has status "warning"
_analyze_performance(source) ==
    LET issues == PerformanceIssues(source)
        n == issues.nested_loops + issues.elements + issues.query_in_loop
    IN  IF n = 0 THEN 100 ELSE Max(0, 100 - 5 * n)

\* lines 100-138: the CodeMetrics of a source that parses and whose scan
\* does not raise
CodeMetrics(source, dependencies) ==
    [lines_of_code |-> total_lines(source),
     comment_lines |-> comment_lines(source),
     complexity |-> complexity(source),
     dependencies |-> dependencies,
     maintainability_index |->
         _calculate_maintainability(total_lines(source), comment_lines(source),
                                    complexity(source)),
     security_score |-> _analyze_security(source),
     performance_score |-> _analyze_performance(source)]

\* the deductions of _calculate_overall_score
Deduction(severity) ==
    CASE severity = "critical" -> 20
      [] severity = "high" -> 10
      [] severity = "medium" -> 5
      [] severity = "low" -> 2
      [] OTHER -> 0

RECURSIVE Deductions(_)
Deductions(findings) ==
    IF findings = <<>> THEN 0
    ELSE Deduction(Head(findings)) + Deductions(Tail(findings))

\* lines 377-399, in thousandths
_calculate_overall_score(findings, metrics) ==
    Max(0, Min(100000,
        ((3 * metrics.maintainability_index + 4000 * metrics.security_score
              + 3000 * metrics.performance_score) \div 10)
            - 1000 * Deductions(findings)))

\* the metrics as _determine_approval_status compares them: a float m is below
\* 60 (at least 70) exactly when its whole part is
Whole(metrics) ==
    [maintainability_index |-> metrics.maintainability_index \div 1000,
     security_score |-> metrics.security_score,
     performance_score |-> metrics.performance_score]

\* what the advisory review gives: an exception (the call fails, the text is
\* not JSON, a finding lacks a field), or findings; categorised says that
\* some finding has category security, performance or style
SeverityRank(severity) ==
    CASE severity = "critical" -> 1 [] severity = "high" -> 2 [] OTHER -> 3

ReviewReplies ==
    {[error |-> "malformed", findings |-> <<>>, categorised |-> FALSE]}
    \cup
    {reply \in [error : {"none"},
                findings : UNION {[1..n -> {"critical", "high", "medium"}] :
                                      n \in 0..MaxFindings},
                categorised : BOOLEAN] :
        \* the verdict and the score do not depend on the order of the findings
        /\ \A i \in 1..(Len(reply.findings) - 1) :
               SeverityRank(reply.findings[i]) <= SeverityRank(reply.findings[i + 1])
        /\ reply.categorised => reply.findings # <<>>}

\* datetime.now() of a run
Times == {1, 2}
RunIds == {1, 2}

\* a call of review_code that has not started
NoRun ==
    [pc |-> "review_code",
     raised |-> "none",
     issued |-> 0,                      \* advisory requests issued
     security_issues |-> [critical |-> 0, high |-> 0],
     performance_issues |-> [nested_loops |-> 0, elements |-> 0, query_in_loop |-> 0],
     metrics |-> None,
     summary |-> None]

NoAnalysis ==
    [source |-> EmptySource,
     reply |-> [error |-> "malformed", findings |-> <<>>, categorised |-> FALSE],
     runs |-> [r \in RunIds |-> NoRun]]

\* review_code lines 319-350: analyze_code_metrics, then the advisory request;
\* an exception of the analysis is re-raised
Analysed(source, dependencies) ==
    IF ~Parses(source)
    THEN [NoRun EXCEPT !.pc = "raised", !.raised = "SyntaxError"]
    ELSE IF PerformanceRaises(source)
    THEN [NoRun EXCEPT !.pc = "raised", !.raised = "AttributeError",
                       !.security_issues = SecurityIssues(source)]
    ELSE [NoRun EXCEPT !.pc = "generate_content",
                       !.issued = 1,
                       !.security_issues = SecurityIssues(source),
                       !.performance_issues = PerformanceIssues(source),
                       !.metrics = Some(CodeMetrics(source, dependencies))]

\* no review has been asked for
NoReview ==
    [pc |-> "none", findings |-> <<>>,
     metrics |-> [maintainability_index |-> 0, security_score |-> 0,
                  performance_score |-> 0],
     approval_status |-> "none"]

InFlight == {"validate_product_specs", "validate_architecture",
             "cross_validate_with_role"}

\* what the last step gave its caller: nothing when it suspended at an await;
\* for a validate_checkpoint that returned or raised, also the frame it left
NoReturn ==
    [op |-> "none", checkpoint_id |-> "c1", raised |-> "none", value |-> 0,
     caught |-> "none", frame |-> IdleCall]

Init ==
    /\ checkpoints = [id \in Ids |-> 0]
    /\ heap = <<>>
    /\ calls = [c \in CallIds |-> IdleCall]
    /\ reports = [o \in 1..MaxCheckpoints |-> None]
    /\ ret = NoReturn
    /\ replies = 0
    /\ review = NoReview
    /\ analysis = NoAnalysis

\* ------------------------------------------------------- create / get
\* as create_checkpoint, but the registry is emptied first
create_checkpoint_clear(checkpoint_id, stage) ==
    /\ Len(heap) < MaxCheckpoints
    /\ heap' = Append(heap, CheckpointStatus(checkpoint_id, stage))
    /\ checkpoints' = [id \in Ids |-> IF id = checkpoint_id THEN Len(heap) + 1 ELSE 0]
    /\ ret' = [NoReturn EXCEPT !.op = "create_checkpoint",
                               !.checkpoint_id = checkpoint_id,
                               !.value = Len(heap) + 1]
    /\ UNCHANGED <<calls, reports, replies>>

create_checkpoint(checkpoint_id, stage) ==
    /\ Len(heap) < MaxCheckpoints
    /\ heap' = Append(heap, CheckpointStatus(checkpoint_id, stage))
    /\ checkpoints' = [checkpoints EXCEPT ![checkpoint_id] = Len(heap) + 1]
    /\ ret' = [NoReturn EXCEPT !.op = "create_checkpoint",
                               !.checkpoint_id = checkpoint_id,
                               !.value = Len(heap) + 1]
    /\ UNCHANGED <<calls, reports, replies>>

\* as get_checkpoint_status, but an unknown id is registered on the fly
get_checkpoint_status_setdefault(checkpoint_id) ==
    IF checkpoints[checkpoint_id] = 0 /\ Len(heap) < MaxCheckpoints
    THEN /\ heap' = Append(heap, CheckpointStatus(checkpoint_id, "spec"))
         /\ checkpoints' = [checkpoints EXCEPT ![checkpoint_id] = Len(heap) + 1]
         /\ ret' = [NoReturn EXCEPT !.op = "get_checkpoint_status",
                                    !.checkpoint_id = checkpoint_id,
                                    !.value = Len(heap) + 1]
         /\ UNCHANGED <<calls, reports, replies>>
    ELSE /\ ret' = [NoReturn EXCEPT !.op = "get_checkpoint_status",
                                    !.checkpoint_id = checkpoint_id,
                                    !.value = checkpoints[checkpoint_id]]
         /\ UNCHANGED <<checkpoints, heap, calls, reports, replies>>

get_checkpoint_status(checkpoint_id) ==
    /\ ret' = IF checkpoints[checkpoint_id] = 0
              THEN [NoReturn EXCEPT !.op = "get_checkpoint_status",
                                    !.checkpoint_id = checkpoint_id,
                                    !.raised = "ValueError"]
              ELSE [NoReturn EXCEPT !.op = "get_checkpoint_status",
                                    !.checkpoint_id = checkpoint_id,
                                    !.value = checkpoints[checkpoint_id]]
    /\ UNCHANGED <<checkpoints, heap, calls, reports, replies>>

\* ------------------------------------------------- validate_checkpoint
\* as ExceptHandler, but the status is left as it is
ExceptHandler_keep(rec, e) ==
    [rec EXCEPT !.blocking_issues = Some(<<str(e)>>)]

\* lines 95-99: except Exception: status = "rejected", blocking_issues = [str(e)]
ExceptHandler(rec, e) ==
    [rec EXCEPT !.status = "rejected", !.blocking_issues = Some(<<str(e)>>)]

\* as Report, but without the decision: the status is reported as "pending"
Report_undecided(rec) ==
    [checkpoint_id |-> rec.checkpoint_id,
     stage |-> rec.stage,
     status |-> "pending",
     validation_result |-> rec.validation_result,
     cross_validation_results |->
         IF rec.cross_validation_results = None THEN <<>>
         ELSE rec.cross_validation_results[1],
     approved_by |-> rec.approved_by,
     blocking_issues |-> rec.blocking_issues]

\* the report dictionary of _save_validation_report
Report(rec) ==
    [checkpoint_id |-> rec.checkpoint_id,
     stage |-> rec.stage,
     status |-> rec.status,
     validation_result |-> rec.validation_result,
     cross_validation_results |->
         IF rec.cross_validation_results = None THEN <<>>
         ELSE rec.cross_validation_results[1],
     approved_by |-> rec.approved_by,
     blocking_issues |-> rec.blocking_issues]

\* a report file whose write was cut short: no field can be read back from it
TruncatedFile ==
    Some([checkpoint_id |-> "",
          stage |-> "",
          status |-> "",
          validation_result |-> None,
          cross_validation_results |-> <<>>,
          approved_by |-> None,
          blocking_issues |-> None])

\* as Decide, but with "or" for "and"
Decide_or(rec, is_approved, blocking_issues, validation_roles) ==
    IF is_approved \/ blocking_issues = <<>>
    THEN [rec EXCEPT !.status = "approved", !.approved_by = Some(validation_roles)]
    ELSE [rec EXCEPT !.status = "rejected"]

\* as Decide, but approved_by is not recorded
Decide_noapprover(rec, is_approved, blocking_issues, validation_roles) ==
    IF is_approved /\ blocking_issues = <<>>
    THEN [rec EXCEPT !.status = "approved"]
    ELSE [rec EXCEPT !.status = "rejected"]

\* lines 84-88: the decision
Decide(rec, is_approved, blocking_issues, validation_roles) ==
    IF is_approved /\ blocking_issues = <<>>
    THEN [rec EXCEPT !.status = "approved", !.approved_by = Some(validation_roles)]
    ELSE [rec EXCEPT !.status = "rejected"]

\* as StoreResults, but blocking_issues is only assigned when there are some
StoreResults_stale(rec, cross_validation_results, blocking_issues) ==
    [rec EXCEPT !.cross_validation_results = Some(cross_validation_results),
                !.blocking_issues = IF blocking_issues # <<>>
                                    THEN Some(blocking_issues)
                                    ELSE rec.blocking_issues]

\* as StoreResults, but the concerns are not stored
StoreResults_drop(rec, cross_validation_results, blocking_issues) ==
    [rec EXCEPT !.cross_validation_results = Some(cross_validation_results),
                !.blocking_issues = None]

\* lines 80-81: the results of the loop are stored on the checkpoint
StoreResults(rec, cross_validation_results, blocking_issues) ==
    [rec EXCEPT !.cross_validation_results = Some(cross_validation_results),
                !.blocking_issues = IF blocking_issues # <<>>
                                    THEN Some(blocking_issues) ELSE None]

\* a coroutine that has returned or raised: its frame is gone
DoneCall == [IdleCall EXCEPT !.pc = "done"]

Returned(call, checkpoint_id, caught) ==
    [op |-> "validate_checkpoint", checkpoint_id |-> checkpoint_id,
     raised |-> "none", value |-> call.checkpoint, caught |-> caught,
     frame |-> call]

\* lines 80-99 from the end of the loop: store, decide, save the report, return;
\* save_ok = FALSE when _save_validation_report raises (it re-raises I/O errors):
\* before the file is opened, which leaves what was there, or while it is
\* written, which leaves a file cut short
Finalize(c, call, rec, save_ok) ==
    LET o == call.checkpoint
        stored == StoreResults(rec, call.cross_validation_results, call.blocking_issues)
        decided == Decide(stored, call.validation_result[1].is_approved,
                          call.blocking_issues, call.validation_roles)
    IN  /\ heap' = [heap EXCEPT ![o] = IF save_ok THEN decided
                                       ELSE ExceptHandler(decided, "save")]
        /\ IF save_ok
           THEN reports' = [reports EXCEPT ![o] = Some(Report(decided))]
           ELSE \E file \in {reports[o], TruncatedFile} :
                    reports' = [reports EXCEPT ![o] = file]
        /\ calls' = [calls EXCEPT ![c] = DoneCall]
        /\ ret' = Returned(call, rec.checkpoint_id, IF save_ok THEN "none" ELSE "save")
        /\ UNCHANGED checkpoints

\* the except branch taken from inside the try block
Abort(c, call, rec, e) ==
    /\ heap' = [heap EXCEPT ![call.checkpoint] = ExceptHandler(rec, e)]
    /\ calls' = [calls EXCEPT ![c] = DoneCall]
    /\ ret' = Returned(call, rec.checkpoint_id, e)
    /\ UNCHANGED <<checkpoints, reports>>

\* as LoopStep, but the loop is left at the first concern
LoopStep_break(c, call, rec, k, save_ok) ==
    IF k > Len(call.validation_roles) \/ call.blocking_issues # <<>>
    THEN Finalize(c, call, rec, save_ok)
    ELSE IF RolePromptRaises(call.content, call.context)
    THEN Abort(c, call, rec, "unserializable")
    ELSE /\ heap' = [heap EXCEPT ![call.checkpoint] = rec]
         /\ calls' = [calls EXCEPT ![c] =
                [call EXCEPT !.pc = "cross_validate_with_role",
                             !.k = k, !.issued = call.issued + 1]]
         /\ ret' = NoReturn
         /\ UNCHANGED <<checkpoints, reports>>

\* as LoopStep, but the results so far are stored on the checkpoint in the loop
LoopStep_eager(c, call, rec, k, save_ok) ==
    IF k > Len(call.validation_roles)
    THEN Finalize(c, call, rec, save_ok)
    ELSE IF RolePromptRaises(call.content, call.context)
    THEN Abort(c, call, rec, "unserializable")
    ELSE /\ heap' = [heap EXCEPT ![call.checkpoint] =
                StoreResults(rec, call.cross_validation_results, call.blocking_issues)]
         /\ calls' = [calls EXCEPT ![c] =
                [call EXCEPT !.pc = "cross_validate_with_role",
                             !.k = k, !.issued = call.issued + 1]]
         /\ ret' = NoReturn
         /\ UNCHANGED <<checkpoints, reports>>

\* lines 68-73: the loop moves to role number k (or past the last one):
\* build its prompt and issue its request, or leave the loop
LoopStep(c, call, rec, k, save_ok) ==
    IF k > Len(call.validation_roles)
    THEN Finalize(c, call, rec, save_ok)
    ELSE IF RolePromptRaises(call.content, call.context)
    THEN Abort(c, call, rec, "unserializable")
    ELSE /\ heap' = [heap EXCEPT ![call.checkpoint] = rec]
         /\ calls' = [calls EXCEPT ![c] =
                [call EXCEPT !.pc = "cross_validate_with_role",
                             !.k = k, !.issued = call.issued + 1]]
         /\ ret' = NoReturn
         /\ UNCHANGED <<checkpoints, reports>>

\* lines 47-60: entry up to the await of the primary validation
validate_checkpoint(c, checkpoint_id, content, validation_roles, context) ==
    /\ calls[c].pc = "idle"
    /\ UNCHANGED replies
    /\ LET call == [calls[c] EXCEPT !.validation_roles = validation_roles,
                                    !.content = content,
                                    !.context = context,
                                    !.checkpoint = checkpoints[checkpoint_id],
                                    !.entry_status =
                                        IF checkpoints[checkpoint_id] = 0 THEN "absent"
                                        ELSE heap[checkpoints[checkpoint_id]].status]
       IN  IF checkpoints[checkpoint_id] = 0
           THEN /\ calls' = [calls EXCEPT ![c] = DoneCall]
                /\ ret' = [NoReturn EXCEPT !.op = "validate_checkpoint",
                                           !.checkpoint_id = checkpoint_id,
                                           !.raised = "ValueError",
                                           !.frame = call]
                /\ UNCHANGED <<checkpoints, heap, reports>>
           ELSE LET checkpoint == heap[call.checkpoint]
                    raises == IF checkpoint.stage = "architecture"
                              THEN ArchitecturePromptRaises(content, context)
                              ELSE ProductSpecsPromptRaises(content)
                IN  IF raises
                    THEN Abort(c, call, checkpoint, "unserializable")
                    ELSE /\ calls' = [calls EXCEPT ![c] =
                               [call EXCEPT !.pc = IF checkpoint.stage = "architecture"
                                                   THEN "validate_architecture"
                                                   ELSE "validate_product_specs",
                                            !.issued = 1]]
                         /\ ret' = NoReturn
                         /\ UNCHANGED <<checkpoints, heap, reports>>

\* lines 55-73: the primary validation's reply arrives; the result is stored
\* on the checkpoint and the loop over the roles starts
primary_returns(c, reply, save_ok) ==
    /\ calls[c].pc \in {"validate_product_specs", "validate_architecture"}
    /\ replies < MaxReplies
    /\ replies' = replies + 1
    /\ LET validation_result ==
               IF calls[c].pc = "validate_architecture"
               THEN validate_architecture(reply)
               ELSE validate_product_specs(reply)
           call == [calls[c] EXCEPT !.validation_result = Some(validation_result),
                                    !.cross_validation_results = <<>>,
                                    !.blocking_issues = <<>>]
           rec == [heap[call.checkpoint] EXCEPT
                      !.validation_result = Some(validation_result)]
       IN  LoopStep(c, call, rec, 1, save_ok)

\* as extend, but the new concerns are put in front
extend_front(blocking_issues, concerns) == concerns \o blocking_issues

\* lines 77-78: blocking_issues.extend(feedback.concerns)
extend(blocking_issues, concerns) == blocking_issues \o concerns

\* lines 69-78: one role's reply arrives; its feedback is recorded and the loop
\* goes on
role_returns(c, reply, save_ok) ==
    /\ calls[c].pc = "cross_validate_with_role"
    /\ replies < MaxReplies
    /\ replies' = replies + 1
    /\ LET role == calls[c].validation_roles[calls[c].k]
           feedback == cross_validate_with_role(reply)
           old == calls[c].cross_validation_results
           call == [calls[c] EXCEPT
                      !.cross_validation_results =
                          [r \in DOMAIN old \cup {role} |->
                              IF r = role THEN feedback ELSE old[r]],
                      !.blocking_issues =
                          IF feedback.concerns # <<>>
                          THEN extend(calls[c].blocking_issues, feedback.concerns)
                          ELSE calls[c].blocking_issues,
                      !.answers = Append(calls[c].answers, reply)]
       IN  LoopStep(c, call, heap[call.checkpoint], calls[c].k + 1, save_ok)

\* approval_system.py line 131 awaits the advisory service with no timeout:
\* when the service never answers a role request, the coroutine stays
\* suspended at the await for ever
role_never_returns(c) ==
    /\ calls[c].pc = "cross_validate_with_role"
    /\ replies < MaxReplies
    /\ replies' = replies + 1
    /\ calls' = [calls EXCEPT ![c].pc = "suspended_forever"]
    /\ ret' = NoReturn
    /\ UNCHANGED <<checkpoints, heap, reports>>

\* the event loop resumes a coroutine whose awaited advisory call has completed
Resume(c) ==
    \/ \E reply \in PrimaryReplies, save_ok \in BOOLEAN : primary_returns(c, reply, save_ok)
    \/ \E reply \in RoleReplies, save_ok \in BOOLEAN : role_returns(c, reply, save_ok)

\* the role requests of a coroutine that are issued and not yet answered:
\* the loop awaits each request before it issues the next
Outstanding(call) ==
    IF call.pc = "cross_validate_with_role" THEN {call.k} ELSE {}

\* ------------------------------------------- reviewer.py: the verdict
\* ReviewFinding.severity of the findings the advisory review returned
Severities == {"critical", "high", "medium"}
FindingLists == UNION {[1..n -> Severities] : n \in 0..MaxFindings}

\* CodeMetrics: the three scores, at and around the thresholds of the rules
SecurityScores == {69, 70, 79, 80}
MaintainabilityScores == {59, 60, 69, 70}
PerformanceScores == {74, 75}
MetricsSet ==
    [maintainability_index : MaintainabilityScores,
     security_score : SecurityScores,
     performance_score : PerformanceScores]

\* as _determine_approval_status, but a security score of 70 is rejected too
_determine_approval_status_le(findings, metrics) ==
    IF \E i \in 1..Len(findings) : findings[i] = "critical"
    THEN "rejected"
    ELSE IF metrics.security_score <= 70
    THEN "rejected"
    ELSE IF Cardinality({i \in 1..Len(findings) :
                            findings[i] \in {"high", "critical"}}) > 3
    THEN "needs_revision"
    ELSE IF metrics.maintainability_index < 60
    THEN "needs_revision"
    ELSE IF /\ metrics.security_score >= 80
            /\ metrics.maintainability_index >= 70
            /\ metrics.performance_score >= 75
    THEN "approved"
    ELSE "needs_revision"

\* reviewer.py lines 401-425
_determine_approval_status(findings, metrics) ==
    IF \E i \in 1..Len(findings) : findings[i] = "critical"
    THEN "rejected"
    ELSE IF metrics.security_score < 70
    THEN "rejected"
    ELSE IF Cardinality({i \in 1..Len(findings) :
                            findings[i] \in {"high", "critical"}}) > 3
    THEN "needs_revision"
    ELSE IF metrics.maintainability_index < 60
    THEN "needs_revision"
    ELSE IF /\ metrics.security_score >= 80
            /\ metrics.maintainability_index >= 70
            /\ metrics.performance_score >= 75
    THEN "approved"
    ELSE "needs_revision"

\* a review whose findings and metrics are at hand
ReviewInit ==
    /\ checkpoints = [id \in Ids |-> 0]
    /\ heap = <<>>
    /\ calls = [c \in CallIds |-> IdleCall]
    /\ reports = [o \in 1..MaxCheckpoints |-> None]
    /\ ret = NoReturn
    /\ replies = 0
    /\ \E findings \in FindingLists, metrics \in MetricsSet :
           review = [NoReview EXCEPT !.pc = "review_code",
                                     !.findings = findings,
                                     !.metrics = metrics]
    /\ analysis = NoAnalysis

\* review_code line 369: approval_status=self._determine_approval_status(...)
determine_approval_status ==
    /\ review.pc = "review_code"
    /\ review' = [review EXCEPT
                     !.pc = "done",
                     !.approval_status =
                         _determine_approval_status(review.findings, review.metrics)]
    /\ UNCHANGED <<checkpoints, heap, calls, reports, ret, replies, analysis>>

ReviewNext == determine_approval_status

ReviewSpec == ReviewInit /\ [][ReviewNext]_vars

\* ------------------------------------------- reviewer.py: the analysis
\* as ReviewSummary, but the score is taken from the clock
ReviewSummary_clock(findings, metrics, now) ==
    [timestamp |-> now,
     total_findings |-> Len(findings),
     overall_score |-> 1000 * now,
     approval_status |-> _determine_approval_status(findings, Whole(metrics))]

\* lines 359-371: the ReviewSummary (commit_id, files_reviewed,
\* recommendations and reviewer_comments repeat the inputs)
ReviewSummary(findings, metrics, now) ==
    [timestamp |-> now,
     total_findings |-> Len(findings),
     overall_score |-> _calculate_overall_score(findings, metrics),
     approval_status |-> _determine_approval_status(findings, Whole(metrics))]

\* review_code lines 350-375: the advisory reply arrives. A reply that cannot
\* be used raises; so does a finding of category security, performance or
\* style, which ReviewSummary cannot hold as a SecurityIssue,
\* PerformanceMetric or CodeStyle
Summarised(run, reply, now) ==
    IF reply.error # "none"
    THEN [run EXCEPT !.pc = "raised", !.raised = "advisory"]
    ELSE IF reply.categorised
    THEN [run EXCEPT !.pc = "raised", !.raised = "ValidationError"]
    ELSE [run EXCEPT !.pc = "returned",
                     !.summary = Some(ReviewSummary(reply.findings,
                                                    run.metrics[1], now))]

\* two calls of review_code on the same source, which get the same advisory
\* reply, stepped side by side
AnalyzeInit ==
    /\ checkpoints = [id \in Ids |-> 0]
    /\ heap = <<>>
    /\ calls = [c \in CallIds |-> IdleCall]
    /\ reports = [o \in 1..MaxCheckpoints |-> None]
    /\ ret = NoReturn
    /\ replies = 0
    /\ review = NoReview
    /\ \E source \in Sources, reply \in ReviewReplies :
           analysis = [NoAnalysis EXCEPT !.source = source, !.reply = reply]

\* each run gets its list(dependencies) in an order of its own
review_code ==
    /\ \A r \in RunIds : analysis.runs[r].pc = "review_code"
    /\ \E dependencies \in [RunIds -> Orders(_extract_dependencies(analysis.source))] :
           analysis' = [analysis EXCEPT !.runs =
               [r \in RunIds |-> Analysed(analysis.source, dependencies[r])]]
    /\ UNCHANGED <<checkpoints, heap, calls, reports, ret, replies, review>>

\* each run reads the clock when it builds its summary
review_returns ==
    /\ \A r \in RunIds : analysis.runs[r].pc = "generate_content"
    /\ \E now \in [RunIds -> Times] :
           analysis' = [analysis EXCEPT !.runs =
               [r \in RunIds |-> Summarised(analysis.runs[r], analysis.reply, now[r])]]
    /\ UNCHANGED <<checkpoints, heap, calls, reports, ret, replies, review>>

AnalyzeNext == review_code \/ review_returns

AnalyzeSpec == AnalyzeInit /\ [][AnalyzeNext]_vars

\* ======================================================== the claims
Terminal == {"approved", "rejected"}
ValidateReturned == ret.op = "validate_checkpoint" /\ ret.raised = "none"
PrimaryApproved(f) ==
    f.validation_result # None /\ f.validation_result[1].is_approved
NoConcernReturned(f) ==
    \A i \in 1..Len(f.answers) : cross_validate_with_role(f.answers[i]).concerns = <<>>
\* the primary validation and every listed role have answered
Consulted(f) ==
    f.validation_result # None /\ Len(f.answers) = Len(f.validation_roles)
\* no later entry of the list names the same role as entry i
LastOf(roles, i) == \A j \in (i + 1)..Len(roles) : roles[j] # roles[i]

\* C1: in every reachable state a checkpoint whose status is "approved" has
\* blocking_issues unset or empty
C1_ApprovedHasNoBlockingIssues ==
    \A o \in 1..Len(heap) :
        heap[o].status = "approved" =>
            heap[o].blocking_issues \in {None, Some(<<>>)}

\* a rejected checkpoint was validated again and is now approved
C1_Witness ==
    /\ ValidateReturned
    /\ ret.frame.entry_status = "rejected"
    /\ heap[ret.value].status = "approved"
    /\ checkpoints[ret.checkpoint_id] = ret.value

\* C2: once the record stored under an id is approved or rejected, no step
\* changes the status stored under that id
C2_StatusChangesAtMostOnce ==
    [][\A id \in Ids :
          (checkpoints[id] # 0 /\ heap[checkpoints[id]].status \in Terminal)
              => /\ checkpoints'[id] # 0
                 /\ heap'[checkpoints'[id]].status = heap[checkpoints[id]].status]_vars

\* C3 as stated: a call on a pending checkpoint ends approved iff the primary
\* validation approved and no role returned a concern, and rejected otherwise
C3_ApprovedIffPrimaryAndNoConcern ==
    (ValidateReturned /\ ret.frame.entry_status = "pending") =>
        /\ heap[ret.value].status \in Terminal
        /\ heap[ret.value].status = "approved"
              <=> (PrimaryApproved(ret.frame) /\ NoConcernReturned(ret.frame))

\* C3 amended: ... and no exception was caught during the call (a prompt that
\* cannot be serialised, a report that cannot be saved)
C3_ApprovedIffNoConcernNoException ==
    (ValidateReturned /\ ret.frame.entry_status = "pending") =>
        /\ heap[ret.value].status \in Terminal
        /\ heap[ret.value].status = "approved"
              <=> (/\ PrimaryApproved(ret.frame)
                   /\ NoConcernReturned(ret.frame)
                   /\ ret.caught = "none")

\* a call on a pending checkpoint with two roles has ended approved
C3_Witness ==
    /\ ValidateReturned
    /\ ret.frame.entry_status = "pending"
    /\ Len(ret.frame.validation_roles) = 2
    /\ heap[ret.value].status = "approved"

\* C4: create_checkpoint on an id that is registered raises a duplicate error
\* and leaves the registered record as it was
C4_DuplicateCreateFails ==
    [][\A id \in Ids :
          (checkpoints[id] # 0 /\ ret'.op = "create_checkpoint"
                               /\ ret'.checkpoint_id = id)
              => /\ ret'.raised = "DuplicateCheckpointError"
                 /\ checkpoints'[id] = checkpoints[id]
                 /\ heap'[checkpoints[id]] = heap[checkpoints[id]]]_vars

\* C5: a validate_checkpoint that started on a checkpoint that was already
\* approved or rejected issues no advisory request and changes no checkpoint
C5_ValidateOnlyWhenPending ==
    [][\A c \in CallIds :
          LET f == IF calls'[c].pc = "done" THEN ret'.frame ELSE calls'[c]
          IN  (calls'[c] # calls[c] /\ f.entry_status \in Terminal)
                  => (f.issued = 0 /\ heap' = heap)]_vars

\* C6: get_checkpoint_status changes nothing and raises exactly when the id is
\* not registered; validate_checkpoint on an id that is not registered raises,
\* issues no advisory request and changes nothing
C6_NotFoundLeavesRegistryUnchanged ==
    [][/\ ret'.op = "get_checkpoint_status" =>
            /\ UNCHANGED <<checkpoints, heap, calls, reports, replies>>
            /\ ret'.raised = "ValueError" <=> checkpoints[ret'.checkpoint_id] = 0
            /\ ret'.raised = "none" => ret'.value = checkpoints[ret'.checkpoint_id]
       /\ (ret'.op = "validate_checkpoint" /\ checkpoints[ret'.checkpoint_id] = 0) =>
            /\ ret'.raised = "ValueError"
            /\ ret'.frame.issued = 0
            /\ UNCHANGED <<checkpoints, heap, reports, replies>>
            /\ \A c \in CallIds : calls'[c].pc \in InFlight => calls'[c] = calls[c]
      ]_vars

\* validate_checkpoint raised for an unknown id while another id is registered
C6_Witness ==
    /\ ret.op = "validate_checkpoint"
    /\ ret.raised = "ValueError"
    /\ \E id \in Ids : checkpoints[id] # 0

\* C7 as stated: when a role's advisory call failed, the concerns recorded for
\* that role are the one error message, every other entry of the list was
\* consulted and its feedback recorded, and the checkpoint is rejected
C7_FailedRoleIsAConcern ==
    ValidateReturned =>
        \A i \in 1..Len(ret.frame.answers) :
            ret.frame.answers[i].error # "none" =>
                LET roles == ret.frame.validation_roles
                    rec == heap[ret.value]
                IN  /\ rec.cross_validation_results # None
                    /\ rec.cross_validation_results[1][roles[i]].concerns =
                           <<CrossValidationErrorMsg(ret.frame.answers[i].error)>>
                    /\ Len(ret.frame.answers) = Len(roles)
                    /\ \A j \in 1..Len(roles) :
                           (j # i /\ LastOf(roles, j)) =>
                               rec.cross_validation_results[1][roles[j]] =
                                   cross_validate_with_role(ret.frame.answers[j])
                    /\ rec.status = "rejected"

\* C7 amended: ... the concerns recorded for that role are the one error
\* message unless a later entry of the list names the same role, whose
\* feedback then replaces the record
C7_FailedRoleIsAConcernUnlessRenamed ==
    ValidateReturned =>
        \A i \in 1..Len(ret.frame.answers) :
            ret.frame.answers[i].error # "none" =>
                LET roles == ret.frame.validation_roles
                    rec == heap[ret.value]
                IN  /\ rec.cross_validation_results # None
                    /\ LastOf(roles, i) =>
                           rec.cross_validation_results[1][roles[i]].concerns =
                               <<CrossValidationErrorMsg(ret.frame.answers[i].error)>>
                    /\ Len(ret.frame.answers) = Len(roles)
                    /\ \A j \in 1..Len(roles) :
                           (j # i /\ LastOf(roles, j)) =>
                               rec.cross_validation_results[1][roles[j]] =
                                   cross_validate_with_role(ret.frame.answers[j])
                    /\ rec.status = "rejected"

\* the first of two different roles failed and the second answered
C7_Witness ==
    /\ ValidateReturned
    /\ Len(ret.frame.answers) = 2
    /\ ret.frame.validation_roles[1] # ret.frame.validation_roles[2]
    /\ ret.frame.answers[1].error # "none"
    /\ ret.frame.answers[2].error = "none"

\* C8: the role requests are issued together: while the first role request
\* waits for its answer, the requests of all listed roles are outstanding
C8_RoleRequestsOutstandingTogether ==
    \A c \in CallIds :
        (calls[c].pc = "cross_validate_with_role" /\ calls[c].answers = <<>>) =>
            Outstanding(calls[c]) = 1..Len(calls[c].validation_roles)

\* C9 as stated: a status leaves "pending", and a call returns, only after the
\* primary validation and every listed role have answered
C9_JoinBarrier ==
    [][/\ \A o \in 1..Len(heap) :
            (heap[o].status = "pending" /\ heap'[o].status # "pending") =>
                /\ ret'.op = "validate_checkpoint" /\ ret'.value = o
                /\ Consulted(ret'.frame)
       /\ (ret'.op = "validate_checkpoint" /\ ret'.raised = "none") =>
                Consulted(ret'.frame)
      ]_vars

\* C9 amended: ... or the call caught an exception while building a prompt, in
\* which case the checkpoint is rejected at once; a status becomes "approved"
\* only after the primary validation and every listed role have answered
C9_JoinBarrierUnlessException ==
    [][/\ \A o \in 1..Len(heap) :
            (heap[o].status = "pending" /\ heap'[o].status # "pending") =>
                /\ ret'.op = "validate_checkpoint" /\ ret'.value = o
                /\ Consulted(ret'.frame) \/ ret'.caught = "unserializable"
                /\ heap'[o].status = "approved" => Consulted(ret'.frame)
       /\ (ret'.op = "validate_checkpoint" /\ ret'.raised = "none") =>
                /\ Consulted(ret'.frame) \/ ret'.caught = "unserializable"
                /\ ret'.caught = "unserializable" => heap'[ret'.value].status = "rejected"
      ]_vars

\* a call with two roles, the first of which raised a concern, has returned
C9_Witness ==
    /\ ValidateReturned
    /\ ret.frame.entry_status = "pending"
    /\ Len(ret.frame.validation_roles) = 2
    /\ Len(ret.frame.answers) = 2
    /\ cross_validate_with_role(ret.frame.answers[1]).concerns # <<>>
    /\ heap[ret.value].status = "rejected"

\* C10 as stated: a step of a call that leaves it waiting for an answer changes
\* none of validation_result, cross_validation_results, approved_by,
\* blocking_issues, status of its checkpoint, and get_checkpoint_status returns
\* the registered record as it is
C10_NoResultVisibleBeforeJoin ==
    [][/\ \A c \in CallIds :
            (calls'[c] # calls[c] /\ calls'[c].pc \in InFlight) =>
                LET o == calls'[c].checkpoint
                IN  /\ heap'[o].validation_result = heap[o].validation_result
                    /\ heap'[o].cross_validation_results = heap[o].cross_validation_results
                    /\ heap'[o].approved_by = heap[o].approved_by
                    /\ heap'[o].blocking_issues = heap[o].blocking_issues
                    /\ heap'[o].status = heap[o].status
       /\ (ret'.op = "get_checkpoint_status" /\ ret'.raised = "none") =>
            /\ ret'.value = checkpoints[ret'.checkpoint_id]
            /\ heap' = heap
      ]_vars

\* C10 amended: ... changes none of cross_validation_results, approved_by,
\* blocking_issues, status; validation_result already holds the call's primary
\* validation while the roles are consulted
C10_OnlyPrimaryResultVisibleBeforeJoin ==
    [][/\ \A c \in CallIds :
            (calls'[c] # calls[c] /\ calls'[c].pc \in InFlight) =>
                LET o == calls'[c].checkpoint
                IN  /\ heap'[o].cross_validation_results = heap[o].cross_validation_results
                    /\ heap'[o].approved_by = heap[o].approved_by
                    /\ heap'[o].blocking_issues = heap[o].blocking_issues
                    /\ heap'[o].status = heap[o].status
                    /\ heap'[o].validation_result =
                           IF calls[c].pc \in {"validate_product_specs",
                                               "validate_architecture"}
                           THEN calls'[c].validation_result
                           ELSE heap[o].validation_result
       /\ (ret'.op = "get_checkpoint_status" /\ ret'.raised = "none") =>
            /\ ret'.value = checkpoints[ret'.checkpoint_id]
            /\ heap' = heap
      ]_vars

\* get_checkpoint_status returned a checkpoint while a call on it, the only
\* one so far, waits for the second of two roles
C10_Witness ==
    /\ ret.op = "get_checkpoint_status"
    /\ ret.raised = "none"
    /\ \E c \in CallIds :
          /\ calls[c].pc = "cross_validate_with_role"
          /\ calls[c].checkpoint = ret.value
          /\ calls[c].k = 2
          /\ \A d \in CallIds \ {c} : calls[d].pc = "idle"
          /\ heap[ret.value].validation_result = calls[c].validation_result
          /\ heap[ret.value].status = "pending"

\* C11: the fields of a checkpoint are written by one call: when a call
\* returns after its decision, the validation_result on its checkpoint is the
\* primary result that call itself obtained and decided on
C11_FieldsWrittenByOneCall ==
    (ValidateReturned /\ ret.caught = "none") =>
        /\ heap[ret.value].validation_result = ret.frame.validation_result
        /\ heap[ret.value].status = "approved" =>
               heap[ret.value].validation_result[1].is_approved

\* C12: a call whose role request is never answered still ends: the role is
\* treated as failed and the call returns with its checkpoint approved or
\* rejected
C12_UnresponsiveRoleTerminates ==
    \A c \in CallIds :
        [](calls[c].pc = "suspended_forever" => <>(calls[c].pc = "done"))

\* C13: a checkpoint that validate_checkpoint returns with status "rejected"
\* has blocking_issues set to a list with at least one issue
C13_RejectedHasBlockingIssues ==
    (ValidateReturned /\ heap[ret.value].status = "rejected") =>
        /\ heap[ret.value].blocking_issues # None
        /\ heap[ret.value].blocking_issues[1] # <<>>

\* C14 as stated: a checkpoint that validate_checkpoint returns is approved or
\* rejected and its validation_result is set
C14_ReturnedTerminalWithResult ==
    ValidateReturned =>
        /\ heap[ret.value].status \in Terminal
        /\ heap[ret.value].validation_result # None

\* C14 amended: ... its validation_result is set unless the call caught an
\* exception while it built the prompt of the primary validation, before any
\* advisory request was issued; the checkpoint is then rejected
C14_ReturnedTerminalWithResultUnlessPromptRaised ==
    ValidateReturned =>
        /\ heap[ret.value].status \in Terminal
        /\ ret.frame.validation_result # None =>
               heap[ret.value].validation_result # None
        /\ heap[ret.value].validation_result = None =>
               /\ ret.caught = "unserializable"
               /\ ret.frame.issued = 0
               /\ heap[ret.value].status = "rejected"

\* a call returned after it caught an exception raised by a role's prompt,
\* with the primary validation's result on its checkpoint
C14_Witness ==
    /\ ValidateReturned
    /\ ret.caught = "unserializable"
    /\ ret.frame.issued = 1
    /\ heap[ret.value].validation_result = ret.frame.validation_result
    /\ heap[ret.value].validation_result # None

\* the call started on a pending checkpoint, its primary validation approved
\* and every listed role answered without a concern
ScenarioC(f) ==
    /\ f.entry_status = "pending"
    /\ PrimaryApproved(f)
    /\ Consulted(f)
    /\ NoConcernReturned(f)

\* C15 as stated: in that case the returned checkpoint is approved and its
\* approved_by is the role list as given
C15_AllClearIsApprovedByRoles ==
    (ValidateReturned /\ ScenarioC(ret.frame)) =>
        /\ heap[ret.value].status = "approved"
        /\ heap[ret.value].approved_by = Some(ret.frame.validation_roles)

\* C15 amended: ... provided the validation report could be saved; when saving
\* it raises, the checkpoint is rejected although approved_by is the role list
C15_AllClearIsApprovedByRolesIfSaved ==
    (ValidateReturned /\ ScenarioC(ret.frame)) =>
        /\ heap[ret.value].approved_by = Some(ret.frame.validation_roles)
        /\ ret.caught \in {"none", "save"}
        /\ heap[ret.value].status = "approved" <=> ret.caught = "none"
        /\ heap[ret.value].status = "rejected" <=> ret.caught = "save"

\* two different roles answered without a concern and the checkpoint is
\* approved by the two, in the order given
C15_Witness ==
    /\ ValidateReturned
    /\ ScenarioC(ret.frame)
    /\ ret.frame.validation_roles = <<"architect", "engineer">>
    /\ heap[ret.value].status = "approved"
    /\ heap[ret.value].approved_by = Some(<<"architect", "engineer">>)

\* the call started on a pending checkpoint, its primary validation approved,
\* every listed role answered and one of them with a concern
ScenarioD(f) ==
    /\ f.entry_status = "pending"
    /\ PrimaryApproved(f)
    /\ Consulted(f)
    /\ ~NoConcernReturned(f)

\* every concern the roles of call f returned is among the issues
ContainsConcerns(issues, f) ==
    \A i \in 1..Len(f.answers) :
        LET concerns == cross_validate_with_role(f.answers[i]).concerns
        IN  \A n \in 1..Len(concerns) :
                \E m \in 1..Len(issues) : issues[m] = concerns[n]

\* C16 as stated: in that case the returned checkpoint is rejected, its
\* blocking_issues contains the concern and its approved_by is unset
C16_ConcernIsRejected ==
    (ValidateReturned /\ ScenarioD(ret.frame)) =>
        /\ heap[ret.value].status = "rejected"
        /\ heap[ret.value].blocking_issues # None
        /\ ContainsConcerns(heap[ret.value].blocking_issues[1], ret.frame)
        /\ heap[ret.value].approved_by = None

\* C16 amended: the returned checkpoint is rejected and the call has not
\* written approved_by; blocking_issues contains the concern when the
\* validation report could be saved, and is the one error message when saving
\* it raised
C16_ConcernIsRejectedAndListedIfSaved ==
    [][(ret'.op = "validate_checkpoint" /\ ret'.raised = "none"
            /\ ScenarioD(ret'.frame)) =>
          LET o == ret'.value
          IN  /\ heap'[o].status = "rejected"
              /\ heap'[o].approved_by = heap[o].approved_by
              /\ heap'[o].blocking_issues # None
              /\ ret'.caught \in {"none", "save"}
              /\ ret'.caught = "none" =>
                     ContainsConcerns(heap'[o].blocking_issues[1], ret'.frame)
              /\ ret'.caught = "save" =>
                     heap'[o].blocking_issues = Some(<<str("save")>>)
      ]_vars

\* the architect had no concern, the engineer had one, and the checkpoint is
\* rejected with the concern listed and nobody recorded as approver
C16_Witness ==
    /\ ValidateReturned
    /\ ScenarioD(ret.frame)
    /\ ret.frame.validation_roles = <<"architect", "engineer">>
    /\ ret.frame.answers[1].concerns = <<>>
    /\ ret.frame.answers[2].error = "none"
    /\ heap[ret.value].status = "rejected"
    /\ heap[ret.value].blocking_issues = Some(ret.frame.answers[2].concerns)
    /\ heap[ret.value].approved_by = None

\* a list of issues as blocking_issues stores it: unset when it is empty
OrNone(issues) == IF issues = <<>> THEN None ELSE Some(issues)

\* the concerns held in a cross_validation_results dictionary, concatenated in
\* the order of its keys (a dictionary keeps the order in which its keys were
\* first inserted, that is the order of the role list)
RECURSIVE HeldConcerns(_, _, _)
HeldConcerns(cross, roles, i) ==
    IF i > Len(roles) THEN <<>>
    ELSE (IF \E j \in 1..(i - 1) : roles[j] = roles[i] THEN <<>>
          ELSE cross[roles[i]].concerns) \o HeldConcerns(cross, roles, i + 1)

\* the concerns the role requests returned, concatenated in the order of the
\* requests
RECURSIVE ReturnedConcerns(_, _)
ReturnedConcerns(answers, i) ==
    IF i > Len(answers) THEN <<>>
    ELSE cross_validate_with_role(answers[i]).concerns
             \o ReturnedConcerns(answers, i + 1)

NoDuplicates(roles) ==
    \A i, j \in 1..Len(roles) : roles[i] = roles[j] => i = j

\* C17 as stated: when a call returns after all its roles have answered,
\* blocking_issues is the concatenation, in the order of the role list, of the
\* concerns held in cross_validation_results, and unset when there are none
C17_BlockingIssuesAreHeldConcerns ==
    (ValidateReturned /\ Consulted(ret.frame)) =>
        /\ heap[ret.value].cross_validation_results # None
        /\ heap[ret.value].blocking_issues =
               OrNone(HeldConcerns(heap[ret.value].cross_validation_results[1],
                                   ret.frame.validation_roles, 1))

\* C17 amended: blocking_issues is the concatenation, in the order of the role
\* list, of the concerns every role request returned; that is the concerns
\* held in cross_validation_results when no role is listed twice (of a role
\* listed twice only the last feedback is held); when saving the report raised,
\* blocking_issues is the one error message instead
C17_BlockingIssuesAreReturnedConcerns ==
    (ValidateReturned /\ Consulted(ret.frame)) =>
        LET rec == heap[ret.value]
        IN  /\ rec.cross_validation_results # None
            /\ ret.caught \in {"none", "save"}
            /\ ret.caught = "none" =>
                   rec.blocking_issues = OrNone(ReturnedConcerns(ret.frame.answers, 1))
            /\ (ret.caught = "none" /\ NoDuplicates(ret.frame.validation_roles)) =>
                   rec.blocking_issues =
                       OrNone(HeldConcerns(rec.cross_validation_results[1],
                                           ret.frame.validation_roles, 1))
            /\ ret.caught = "save" =>
                   rec.blocking_issues = Some(<<str("save")>>)

\* the same role was asked twice, with two concerns and then with a failure:
\* the three concerns are the blocking issues, in that order
C17_Witness ==
    /\ ValidateReturned
    /\ ret.caught = "none"
    /\ ret.frame.validation_roles = <<"architect", "architect">>
    /\ Len(ret.frame.answers) = 2
    /\ Len(ret.frame.answers[1].concerns) = 2
    /\ ret.frame.answers[2].error # "none"
    /\ heap[ret.value].blocking_issues =
           Some(ret.frame.answers[1].concerns
                    \o <<CrossValidationErrorMsg(ret.frame.answers[2].error)>>)

\* the report file of a checkpoint holds the checkpoint's status, approved_by
\* and blocking_issues
ReportMatches(file, rec) ==
    /\ file # None
    /\ file[1].status = rec.status
    /\ file[1].approved_by = rec.approved_by
    /\ file[1].blocking_issues = rec.blocking_issues

\* C18 as stated: when validate_checkpoint returns an approved or rejected
\* checkpoint, the report persisted for it holds the checkpoint's status,
\* approved_by and blocking_issues
C18_ReturnedCheckpointHasReport ==
    (ValidateReturned /\ heap[ret.value].status \in Terminal) =>
        ReportMatches(reports[ret.value], heap[ret.value])

\* C18 amended: ... when validate_checkpoint returns without having caught an
\* exception; a call that caught one returns a rejected checkpoint and has
\* persisted no report of it (the file is as it was, or cut short)
C18_ReturnedCheckpointHasReportUnlessException ==
    [][(ret'.op = "validate_checkpoint" /\ ret'.raised = "none") =>
          LET o == ret'.value
          IN  /\ heap'[o].status \in Terminal
              /\ ret'.caught = "none" =>
                     /\ ReportMatches(reports'[o], heap'[o])
                     /\ reports'[o][1].checkpoint_id = heap'[o].checkpoint_id
              /\ ret'.caught # "none" =>
                     /\ heap'[o].status = "rejected"
                     /\ reports'[o] \in {reports[o], TruncatedFile}
                     /\ ~ReportMatches(reports'[o], heap'[o])
      ]_vars

\* a call returned a rejected checkpoint with a role's concerns, and the
\* report on file says the same
C18_Witness ==
    /\ ValidateReturned
    /\ ret.caught = "none"
    /\ heap[ret.value].status = "rejected"
    /\ heap[ret.value].blocking_issues # None
    /\ ret.frame.answers # <<>>
    /\ ReportMatches(reports[ret.value], heap[ret.value])

\* C19: a create_checkpoint(id, stage) step on an id that is not registered
\* registers and returns a new record with that id and stage, status "pending"
\* and the four result fields unset, and leaves the records of the other ids
\* as they were
C19_CreateStoresPendingRecord ==
    [][\A id \in Ids, stage \in Stages :
          (checkpoints[id] = 0 /\ create_checkpoint(id, stage)) =>
              LET o == ret'.value
              IN  /\ ret'.op = "create_checkpoint"
                  /\ ret'.raised = "none"
                  /\ o \in (1..Len(heap')) \ (1..Len(heap))
                  /\ checkpoints'[id] = o
                  /\ heap'[o].checkpoint_id = id
                  /\ heap'[o].stage = stage
                  /\ heap'[o].status = "pending"
                  /\ heap'[o].validation_result = None
                  /\ heap'[o].cross_validation_results = None
                  /\ heap'[o].approved_by = None
                  /\ heap'[o].blocking_issues = None
                  /\ \A other \in Ids \ {id} :
                         /\ checkpoints'[other] = checkpoints[other]
                         /\ checkpoints[other] # 0 =>
                                heap'[checkpoints[other]] = heap[checkpoints[other]]
      ]_vars

\* a second id was created while the first id holds an approved record
C19_Witness ==
    /\ ret.op = "create_checkpoint"
    /\ ret.checkpoint_id = "c2"
    /\ checkpoints["c2"] = ret.value
    /\ heap[ret.value] = CheckpointStatus("c2", "architecture")
    /\ checkpoints["c1"] # 0
    /\ checkpoints["c1"] # ret.value
    /\ heap[checkpoints["c1"]].status = "approved"

\* the six rules of the approval decision, in their order of priority
Rules(findings, metrics) ==
    << [fires |-> \E i \in DOMAIN findings : findings[i] = "critical",
        verdict |-> "rejected"],
       [fires |-> metrics.security_score < 70,
        verdict |-> "rejected"],
       [fires |-> Cardinality({i \in DOMAIN findings :
                                  findings[i] = "high" \/ findings[i] = "critical"}) > 3,
        verdict |-> "needs_revision"],
       [fires |-> metrics.maintainability_index < 60,
        verdict |-> "needs_revision"],
       [fires |-> /\ metrics.security_score >= 80
                  /\ metrics.maintainability_index >= 70
                  /\ metrics.performance_score >= 75,
        verdict |-> "approved"],
       [fires |-> TRUE,
        verdict |-> "needs_revision"] >>

\* the verdict of the first rule that fires
FirstMatch(rules) ==
    LET n == CHOOSE i \in DOMAIN rules :
                 rules[i].fires /\ \A j \in 1..(i - 1) : ~rules[j].fires
    IN  rules[n].verdict

\* C20: the approval status is the verdict of the first of the six rules that
\* fires; a security score of exactly 70 is not rejected by rule 2, and scores
\* of exactly 80, 70 and 75 with no critical finding and at most three high
\* ones are approved
C20_ApprovalIsFirstMatchingRule ==
    review.pc = "done" =>
        /\ review.approval_status = FirstMatch(Rules(review.findings, review.metrics))
        /\ (/\ review.metrics.security_score = 70
            /\ \A i \in DOMAIN review.findings : review.findings[i] # "critical")
               => review.approval_status = "needs_revision"
        /\ (/\ review.metrics.security_score = 80
            /\ review.metrics.maintainability_index = 70
            /\ review.metrics.performance_score = 75
            /\ \A i \in DOMAIN review.findings : review.findings[i] = "medium")
               => review.approval_status = "approved"

\* three high findings and scores exactly on the thresholds of rule 5:
\* approved
C20_Witness ==
    /\ review.pc = "done"
    /\ review.findings = <<"high", "high", "high">>
    /\ review.metrics.security_score = 80
    /\ review.metrics.maintainability_index = 70
    /\ review.metrics.performance_score = 75
    /\ review.approval_status = "approved"

\* a run of review_code has returned or raised
Finished(run) == run.pc \in {"returned", "raised"}

\* C21: a source that is one eval call gives one critical security issue and
\* security_score 60, and whenever the advisory review returns findings the
\* run ends with approval status "rejected"
C21_SingleEvalIsRejected ==
    (analysis.source = [nest |-> <<>>, leaf |-> "eval", repeat |-> 1]
        /\ analysis.reply.error = "none") =>
        \A r \in RunIds :
            LET run == analysis.runs[r]
            IN  /\ run.pc # "review_code" =>
                       /\ run.security_issues = [critical |-> 1, high |-> 0]
                       /\ run.metrics # None
                       /\ run.metrics[1].security_score = 60
                /\ Finished(run) =>
                       /\ run.summary # None
                       /\ run.summary[1].approval_status = "rejected"

\* C22: the empty source has total_lines 0 and maintainability_index 0.0, and
\* a run on it never ends with approval status "approved"
C22_EmptySourceIsNotApproved ==
    analysis.source = EmptySource =>
        \A r \in RunIds :
            LET run == analysis.runs[r]
            IN  /\ run.metrics # None =>
                       /\ run.metrics[1].lines_of_code = 0
                       /\ run.metrics[1].maintainability_index = 0
                /\ run.summary # None =>
                       run.summary[1].approval_status # "approved"

\* C23: the three scores of every CodeMetrics and the overall score of every
\* ReviewSummary lie between 0 and 100
C23_ScoresInRange ==
    \A r \in RunIds :
        LET run == analysis.runs[r]
        IN  /\ run.metrics # None =>
                   /\ run.metrics[1].security_score \in 0..100
                   /\ run.metrics[1].performance_score \in 0..100
                   /\ run.metrics[1].maintainability_index \in 0..100000
            /\ run.summary # None =>
                   run.summary[1].overall_score \in 0..100000

\* a source with more than twenty performance issues: its performance score
\* is 0, and so many findings were deducted that the overall score is 0 too
C23_Witness ==
    /\ analysis.runs[1].pc = "returned"
    /\ analysis.runs[1].performance_issues.nested_loops
           + analysis.runs[1].performance_issues.query_in_loop > 20
    /\ analysis.runs[1].metrics[1].performance_score = 0
    /\ Len(analysis.reply.findings) = MaxFindings
    /\ analysis.runs[1].summary[1].overall_score = 0

\* two lists hold the same elements
SameElements(a, b) ==
    {a[i] : i \in DOMAIN a} = {b[i] : i \in DOMAIN b}

C25_UnparsableSourceRaises ==
    (analysis.source.leaf = "syntax_error"
        \/ (analysis.source.leaf = "comment" /\ analysis.source.nest # <<>>)) =>
        \A r \in RunIds :
            LET run == analysis.runs[r]
            IN  /\ run.pc \in {"review_code", "raised"}
                /\ run.pc = "raised" => run.raised = "SyntaxError"
                /\ run.issued = 0
                /\ run.metrics = None
                /\ run.summary = None

\* a run on a loop whose whole body is a comment has raised SyntaxError
C25_Witness ==
    /\ analysis.source.leaf = "comment"
    /\ analysis.source.nest = <<"for">>
    /\ analysis.reply.error = "none"
    /\ analysis.runs[1].pc = "raised"
    /\ analysis.runs[1].raised = "SyntaxError"

\* C27: every execute/query/find call inside the body of a loop, a for loop
\* or a while loop, gets a query_in_loop warning, and the performance score is
\* reduced by the warning deduction for it
C27_QueryInAnyLoopIsWarned ==
    (analysis.source.leaf \in {"execute", "query"}
        /\ analysis.source.nest # <<>>) =>
        \A r \in RunIds :
            LET run == analysis.runs[r]
            IN  run.metrics # None =>
                    /\ run.performance_issues.query_in_loop
                           >= analysis.source.repeat
                    /\ run.metrics[1].performance_score
                           <= 100 - 5 * analysis.source.repeat

\* the number of elements of a list or dict literal
LiteralSize(leaf) ==
    IF leaf \in {"list_1000", "dict_1000"} THEN 1000 ELSE 1001

\* C28: a list or dict literal gets an 'elements' warning if and only if it
\* has more than 1000 elements, and the analysis of a source of such
\* literals completes with a CodeMetrics
C28_LargeLiteralIsWarned ==
    (analysis.source.leaf \in {"list_1000", "list_1001", "dict_1000", "dict_1001"}
        /\ analysis.source.repeat > 0) =>
        \A r \in RunIds :
            LET run == analysis.runs[r]
            IN  run.pc # "review_code" =>
                    /\ run.raised # "AttributeError"
                    /\ run.metrics # None
                    /\ run.performance_issues.elements
                           = analysis.source.repeat
                                 * (IF LiteralSize(analysis.source.leaf) > 1000
                                    THEN 1 ELSE 0)

\* the primary validation of the call that left frame f failed: its result is
\* the one the except clause builds
PrimaryFailed(f) ==
    /\ f.validation_result # None
    /\ \E e \in {"service", "malformed"} :
           f.validation_result[1].issues = <<ValidationErrorMsg(e)>>

\* C26: when the advisory call of the primary validation fails or answers
\* with text that is not JSON, the validation result is a disapproval and the
\* checkpoint the call returns is not "approved", whatever the roles answer
C26_FailedPrimaryIsNotApproved ==
    /\ \A reply \in PrimaryReplies :
           reply.error # "none" =>
               /\ ~validate_product_specs(reply).is_approved
               /\ ~validate_architecture(reply).is_approved
    /\ (ValidateReturned /\ PrimaryFailed(ret.frame)) =>
           /\ ~ret.frame.validation_result[1].is_approved
           /\ heap[ret.value].status # "approved"
           /\ checkpoints[ret.checkpoint_id] = ret.value =>
                  heap[checkpoints[ret.checkpoint_id]].status = "rejected"

\* a call whose primary validation failed has returned its checkpoint
\* rejected although both of its roles answered without a concern
C26_Witness ==
    /\ ValidateReturned
    /\ PrimaryFailed(ret.frame)
    /\ Len(ret.frame.validation_roles) = MaxRoles
    /\ Consulted(ret.frame)
    /\ NoConcernReturned(ret.frame)
    /\ ret.caught = "none"
    /\ heap[ret.value].status = "rejected"

\* C29: in every reachable state a checkpoint of the registry whose status
\* is "rejected" has approved_by unset (an empty list of approvers is let
\* pass as well)
C29_RejectedHasNoApprover ==
    \A id \in Ids :
        (checkpoints[id] # 0 /\ heap[checkpoints[id]].status = "rejected") =>
            heap[checkpoints[id]].approved_by \in {None, Some(<<>>)}

\* C30: when validate_checkpoint(id, ...) returns, the registry holds under id
\* the checkpoint it returns, so get_checkpoint_status(id) gives the same
\* status and results
C30_ReturnedIsRegistered ==
    ValidateReturned =>
        /\ checkpoints[ret.checkpoint_id] # 0
        /\ LET stored == heap[checkpoints[ret.checkpoint_id]]
               returned == heap[ret.value]
           IN  /\ stored.status = returned.status
               /\ stored.status \in Terminal
               /\ stored.validation_result = returned.validation_result
               /\ stored.cross_validation_results = returned.cross_validation_results
               /\ stored.blocking_issues = returned.blocking_issues

Next ==
    \/ \E id \in Ids, stage \in Stages :
            \* ids are interchangeable: the first one created is called "c1"
            /\ (id = "c1" \/ Len(heap) > 0)
            /\ create_checkpoint(id, stage)
            /\ UNCHANGED <<review, analysis>>
    \/ \E id \in Ids : get_checkpoint_status(id) /\ UNCHANGED <<review, analysis>>
    \/ \E c \in CallIds, id \in Ids, content \in Contents,
          roles \in RoleLists, context \in Contexts :
            \* coroutines are interchangeable: they start in the order of CallIds
            /\ \A d \in CallIds : d < c => calls[d].pc # "idle"
            /\ validate_checkpoint(c, id, content, roles, context)
            /\ UNCHANGED <<review, analysis>>
    \/ \E c \in CallIds, reply \in PrimaryReplies, save_ok \in BOOLEAN :
            primary_returns(c, reply, save_ok) /\ UNCHANGED <<review, analysis>>
    \/ \E c \in CallIds, reply \in RoleReplies, save_ok \in BOOLEAN :
            role_returns(c, reply, save_ok) /\ UNCHANGED <<review, analysis>>
    \/ \E c \in CallIds : role_never_returns(c) /\ UNCHANGED <<review, analysis>>

Spec == Init /\ [][Next]_vars

\* asyncio runs every coroutine that is ready: a call whose awaited request
\* has been answered is resumed
LiveSpec == Spec /\ \A c \in CallIds : WF_vars(Resume(c) /\ UNCHANGED <<review, analysis>>)
====
